---- MODULE Spec2Model ----
(***************************************************************************)
(* Model of kpi (src/src/main.rs): list the repositories of an             *)
(* organization, keep those pushed inside a trailing window, walk the      *)
(* commit pages of each under buffer_unordered(thread), fold the author    *)
(* and committer identities into a login -> url map, optionally keep only  *)
(* the logins for which the membership request succeeds, and print.        *)
(*                                                                         *)
(* Option<T> is modelled as a set with at most one element: None = {},     *)
(* Some(x) = {x}.  Result<T> of a parse likewise.                          *)
(***************************************************************************)
EXTENDS Integers, Sequences, FiniteSets, TLC

\* ---------------------------------------------------------------- bounds
MaxRepos == 2      \* repositories returned by the listing
MaxCommits == 3    \* commits in the history of the repository of a single-repository run
PageSize == 2      \* commits per page (per_page=100 in the source, scaled down)
MaxK == 2          \* largest --thread value explored
MaxNow == 3        \* the clock starts at Now0 and advances up to MaxNow

Days == {0, 1}                       \* values of --days
Logins == {"alice", "bob"}
Urls == {"url1", "url2"}
Orgs == {"aosc-dev", "other-org"}    \* values of --org
HardcodedOrg == "aosc-dev"

None == {}
Some(x) == {x}
Unwrap(o) == CHOOSE x \in o : TRUE

Min(a, b) == IF a < b THEN a ELSE b

\* ------------------------------------------------------- timestamp strings
\* An RFC 3339 string is well formed or not; a well-formed one carries a
\* local time and a UTC offset.
BadDate == [wf |-> FALSE, local |-> 0, off |-> 0]
OldDate == [wf |-> TRUE, local |-> 1, off |-> 1]      \* instant 0
RecentDate == [wf |-> TRUE, local |-> 2, off |-> 0]   \* instant 2
DateStrings == {BadDate, OldDate, RecentDate}

\* DateTime::parse_from_rfc3339(s)?.to_utc(): None stands for the Err that `?` propagates.
parse_from_rfc3339(s) == IF s.wf THEN Some(s.local - s.off) ELSE None

\* Utc::now() - dt <= days_duration   (main.rs:116)
InWindow_exact(now_, dt, d) == now_ - dt = d
InWindow_strict(now_, dt, d) == now_ - dt < d
InWindow(now_, dt, d) == now_ - dt <= d

\* Utc::now() - dt > days_duration    (main.rs:323-324)
OutOfWindow(now_, dt, d) == now_ - dt > d

\* ------------------------------------------------------------ data model
\* struct Author { login: Option<String>, html_url: Option<String> }
MkAuthor(l, u) == [login |-> l, html_url |-> u]

\* struct RepoCommit { author: RepoAuthor, committer: RepoAuthor }
MkRepoCommit(a, c) == [author |-> [date |-> a], committer |-> [date |-> c]]
RepoCommits == {MkRepoCommit(a, c) : a \in DateStrings, c \in DateStrings}

\* struct Commit { commit, author, committer }; sha is the commit's identity in
\* the history (its position), which the program carries implicitly as the object.
MkCommit(s, m, a, c) == [sha |-> s, commit |-> m, author |-> a, committer |-> c]

\* struct Repo { url, pushed_at }; history is the backend's commit list for url.
MkRepo(u, p, h) == [url |-> u, pushed_at |-> p, history |-> h]

\* GET {url}/commits?page={page}&per_page=...: the page-th slice of the history.
Page(history, page) ==
  SubSeq(history, (page - 1) * PageSize + 1, Min(page * PageSize, Len(history)))


\* The clock starts at the most recent instant the backend knows of.
Now0 == RecentDate.local - RecentDate.off

\* The body of `for i in repos` (main.rs:115-118) on repository i: ok is FALSE
\* when the `?` on pushed_at returns the Err from main.
FilterOne_skip_bad(i, filter_repos, now_, d) ==
  LET dt == parse_from_rfc3339(i.pushed_at) IN
    IF dt = None THEN [ok |-> TRUE, filter_repos |-> filter_repos]
    ELSE [ok |-> TRUE,
          filter_repos |-> IF InWindow(now_, Unwrap(dt), d)
                           THEN Append(filter_repos, i) ELSE filter_repos]
FilterOne(i, filter_repos, now_, d) ==
  LET dt == parse_from_rfc3339(i.pushed_at) IN
    IF dt = None THEN [ok |-> FALSE, filter_repos |-> filter_repos]
    ELSE [ok |-> TRUE,
          filter_repos |-> IF InWindow(now_, Unwrap(dt), d)
                           THEN Append(filter_repos, i) ELSE filter_repos]

\* ------------------------------------------------------ get_commits_info_by_url
\* The scan of one page (main.rs:317-331) from position k on, with the clock
\* reading now_: "next" = fall through to page += 1, "return" = the early
\* return Ok(filter_author), "parse_error" = a `?` on a malformed date.
BothOutside_or(now_, cdt, adt, d) == OutOfWindow(now_, cdt, d) \/ OutOfWindow(now_, adt, d)
BothOutside(now_, cdt, adt, d) == OutOfWindow(now_, cdt, d) /\ OutOfWindow(now_, adt, d)

\* return Ok(filter_author) at main.rs:326: the commit at hand is not pushed.
OnBothOutside_keep(filter_author, i) ==
  [kind |-> "return", filter_author |-> Append(filter_author, i)]
OnBothOutside(filter_author, i) == [kind |-> "return", filter_author |-> filter_author]

RECURSIVE ScanPage(_, _, _, _, _)
ScanPage(json, k, filter_author, now_, d) ==
  IF k > Len(json) THEN [kind |-> "next", filter_author |-> filter_author]
  ELSE LET i == json[k] IN
    IF i.commit = None THEN ScanPage(json, k + 1, filter_author, now_, d)
    ELSE LET commit == Unwrap(i.commit)
             committer_dt == parse_from_rfc3339(commit.committer.date)
             author_dt == parse_from_rfc3339(commit.author.date)
         IN IF committer_dt = None \/ author_dt = None
            THEN [kind |-> "parse_error", filter_author |-> filter_author]
            ELSE IF BothOutside(now_, Unwrap(committer_dt), Unwrap(author_dt), d)
            THEN OnBothOutside(filter_author, i)
            ELSE ScanPage(json, k + 1, Append(filter_author, i), now_, d)

\* A walker (one get_commits_info_by_url future).  st: pending (not polled yet),
\* running (a get_commits request is in flight), done (returned Ok), failed
\* (returned Err).  resp is the last response of get_commits, stop the statement
\* the future returned through.
NewWalker ==
  [st |-> "pending", page |-> 1, filter_author |-> <<>>, resp |-> "none", stop |-> "none"]

Responses == {"ok", "conflict", "error"}

\* match get_commits(...).await (main.rs:303-311): what a failed fetch does.
OnFetchError(w, r) ==
  IF r = "conflict"
  THEN [w EXCEPT !.st = "failed", !.resp = r, !.stop = "empty_repo"]
  ELSE [w EXCEPT !.st = "failed", !.resp = r, !.stop = "fetch_error"]

\* What follows the scan of a page: page += 1 and the next turn of the loop, the
\* early return, or the Err of a `?` (main.rs:321-333).
AfterScan_skip_page(w, kind) ==
  CASE kind = "next" -> [w EXCEPT !.page = w.page + 2]
    [] kind = "return" -> [w EXCEPT !.st = "done", !.stop = "early"]
    [] OTHER -> [w EXCEPT !.st = "failed", !.stop = "parse_error"]
AfterScan_partial(w, kind) ==
  CASE kind = "next" -> [w EXCEPT !.page = w.page + 1]
    [] kind = "return" -> [w EXCEPT !.st = "done", !.stop = "early"]
    [] OTHER -> [w EXCEPT !.st = "done", !.stop = "parse_error"]
AfterScan_no_stop(w, kind) ==
  CASE kind \in {"next", "return"} -> [w EXCEPT !.page = w.page + 1]
    [] OTHER -> [w EXCEPT !.st = "failed", !.stop = "parse_error"]
AfterScan(w, kind) ==
  CASE kind = "next" -> [w EXCEPT !.page = w.page + 1]
    [] kind = "return" -> [w EXCEPT !.st = "done", !.stop = "early"]
    [] OTHER -> [w EXCEPT !.st = "failed", !.stop = "parse_error"]

\* One turn of the loop (main.rs:300-334) on the response r to the request for
\* page w.page of history, scanned with the clock reading now_.
WalkStep(w, history, r, now_, d) ==
  IF r # "ok" THEN OnFetchError(w, r)
  ELSE LET json == Page(history, w.page) IN
    IF json = <<>>
    THEN [w EXCEPT !.st = "done", !.resp = r, !.stop = "empty_page"]
    ELSE LET s == ScanPage(json, 1, w.filter_author, now_, d)
             w1 == [w EXCEPT !.resp = r, !.filter_author = s.filter_author]
         IN AfterScan(w1, s.kind)

\* The Result the future resolves to; task is the position of the future in tasks.
WalkResult(i, w) ==
  [task |-> i, ok |-> (w.st = "done"), commits |-> w.filter_author, err |-> w.stop]


\* ------------------------------------------------------------ aggregation
\* if let Some(x) = commit.author / commit.committer { if let Some(url) ... {
\* if let Some(login) ... { map.insert(login, url) } } }   (main.rs:158-172)
InsertIdentity_needs_no_url(m, ident) ==
  IF ident = None THEN m
  ELSE LET a == Unwrap(ident) IN
    IF a.login = None THEN m
    ELSE (Unwrap(a.login) :> (IF a.html_url = None THEN "" ELSE Unwrap(a.html_url))) @@ m
InsertIdentity(m, ident) ==
  IF ident = None THEN m
  ELSE LET a == Unwrap(ident) IN
    IF a.html_url = None \/ a.login = None THEN m
    ELSE (Unwrap(a.login) :> Unwrap(a.html_url)) @@ m

\* for commit in commits { author; committer }   (main.rs:157-173)
RECURSIVE FoldCommits(_, _, _)
FoldCommits(m, commits, k) ==
  IF k > Len(commits) THEN m
  ELSE FoldCommits(InsertIdentity(InsertIdentity(m, commits[k].author), commits[k].committer),
                   commits, k + 1)

\* for i in stream { match i { Ok(commits) => ..., Err(e) => error!(e) } }
\* (main.rs:154-179).  abort is set by no path of the source: an Err is logged only.
RECURSIVE FoldStream_propagate(_, _, _)
FoldStream_propagate(acc, results, k) ==
  IF k > Len(results) THEN acc
  ELSE LET i == results[k] IN
    IF i.ok
    THEN FoldStream_propagate([acc EXCEPT !.map = FoldCommits(acc.map, i.commits, 1)],
                              results, k + 1)
    ELSE [acc EXCEPT !.errors = Append(acc.errors, [task |-> i.task, err |-> i.err]),
                     !.abort = TRUE]
RECURSIVE FoldStream(_, _, _)
FoldStream(acc, results, k) ==
  IF k > Len(results) THEN acc
  ELSE LET i == results[k] IN
    IF i.ok
    THEN FoldStream([acc EXCEPT !.map = FoldCommits(acc.map, i.commits, 1)], results, k + 1)
    ELSE FoldStream([acc EXCEPT !.errors = Append(acc.errors, [task |-> i.task, err |-> i.err])],
                    results, k + 1)

\* ------------------------------------------------------------- membership
Outcomes == {"member", "not_found", "other"}

\* The request is_org_user sends for user (main.rs:271-275).
MembershipRequest(user) == [org |-> HardcodedOrg, user |-> user]

\* match resp { Ok(_) => Ok((user, true)), Err(e) => match e.status() {
\* Some(NOT_FOUND) => Ok((user, false)), _ => bail!(..) } }   (main.rs:281-287)
Classify_all_members(user, o) ==
  IF o = "other" THEN [ok |-> FALSE, user |-> user, is_org_user |-> FALSE]
  ELSE [ok |-> TRUE, user |-> user, is_org_user |-> TRUE]
Classify_other_is_absent(user, o) ==
  [ok |-> TRUE, user |-> user, is_org_user |-> (o = "member")]
Classify(user, o) ==
  CASE o = "member" -> [ok |-> TRUE, user |-> user, is_org_user |-> TRUE]
    [] o = "not_found" -> [ok |-> TRUE, user |-> user, is_org_user |-> FALSE]
    [] OTHER -> [ok |-> FALSE, user |-> user, is_org_user |-> FALSE]

\* for i in stream { Ok((user, true)) => println!, Ok((_, false)) => continue,
\* Err(e) => bail!(e) }   (main.rs:196-213): lines printed and whether it bailed.
RECURSIVE PrintFiltered(_, _, _, _)
PrintFiltered(out, results, m, k) ==
  IF k > Len(results) THEN [output |-> out, bailed |-> FALSE]
  ELSE LET i == results[k] IN
    IF ~i.ok THEN [output |-> out, bailed |-> TRUE]
    ELSE IF ~i.is_org_user THEN PrintFiltered(out, results, m, k + 1)
    ELSE PrintFiltered(Append(out, <<i.user, m[i.user]>>), results, m, k + 1)

\* buffer_unordered(n): a future is pulled from the iterator only while fewer
\* than n are in progress (main.rs:150, 188).
HasFreeSlot_one_more(in_progress, n) == in_progress <= n
HasFreeSlot_off_by_one(in_progress, n) == in_progress < n - 1
HasFreeSlot(in_progress, n) == in_progress < n


\* ------------------------------------------------------------------ state
VARIABLES
  cfg,           \* Args: days, thread, filter_org_user, org
  backend,       \* what the platform holds: the organization's repositories
  now,           \* Utc::now()
  start,         \* the clock when the program started
  pc,            \* main: get_repos, filter, walk, membership, ok, failed
  err,           \* the Err main returned with ("" while none)
  list_req,      \* organization named in the get_repos request ({} before it)
  repos,         \* what is left of `for i in repos`
  filter_repos,
  walkers,       \* tasks of the first buffer_unordered
  stream,        \* results collected by the first buffer_unordered
  map,
  errors,        \* what error! logged
  checks,        \* tasks of the second buffer_unordered, by login
  mreqs,         \* membership requests sent
  mstream,       \* results collected by the second buffer_unordered
  output         \* lines printed, as <<login, url>>

vars == <<cfg, backend, now, start, pc, err, list_req, repos, filter_repos, walkers, stream,
          map, errors, checks, mreqs, mstream, output>>

SeqsUpTo(S, n) == UNION {[1..k -> S] : k \in 0..n}

\* Inputs of the single-repository runs: every history of at most MaxCommits
\* commits, each with or without commit metadata and with any pair of dates.
Alice == Some(MkAuthor(Some("alice"), Some("url1")))
WalkMetas == {None} \cup {Some(m) : m \in RepoCommits}
WalkHistories ==
  {[k \in DOMAIN ms |-> MkCommit(k, ms[k], Alice, None)] : ms \in SeqsUpTo(WalkMetas, MaxCommits)}

\* Inputs of the many-repository runs: a few histories that differ in their identities.
Recent == Some(MkRepoCommit(RecentDate, RecentDate))
HistA == <<MkCommit(1, Recent, Alice, Some(MkAuthor(None, Some("url1")))),
           MkCommit(2, Some(MkRepoCommit(OldDate, OldDate)),
                    Some(MkAuthor(Some("bob"), Some("url1"))), None)>>
HistB == <<MkCommit(1, Some(MkRepoCommit(RecentDate, OldDate)),
                    Some(MkAuthor(Some("alice"), Some("url2"))),
                    Some(MkAuthor(Some("bob"), Some("url2")))),
           MkCommit(2, Recent, Some(MkAuthor(Some("bob"), None)), None)>>
RunRepoKinds ==
  {[pushed_at |-> RecentDate, history |-> HistA],
   [pushed_at |-> RecentDate, history |-> HistB],
   [pushed_at |-> OldDate, history |-> HistA],
   [pushed_at |-> BadDate, history |-> HistB]}
RunBackends ==
  {[k \in DOMAIN ks |-> MkRepo(k, ks[k].pushed_at, ks[k].history)] :
     ks \in SeqsUpTo(RunRepoKinds, MaxRepos)}

InitRest ==
  /\ start = now
  /\ pc = "get_repos"
  /\ err = ""
  /\ list_req = {}
  /\ repos = <<>>
  /\ filter_repos = <<>>
  /\ walkers = <<>>
  /\ stream = <<>>
  /\ map = <<>>
  /\ errors = <<>>
  /\ checks = <<>>
  /\ mreqs = <<>>
  /\ mstream = <<>>
  /\ output = <<>>

InitWalk ==
  /\ cfg \in [days : Days, thread : {1}, filter_org_user : {FALSE}, org : {HardcodedOrg}]
  /\ backend \in {<<MkRepo(1, RecentDate, h)>> : h \in WalkHistories}
  /\ now \in Now0..MaxNow
  /\ InitRest

InitRun ==
  /\ cfg \in [days : Days, thread : 1..MaxK, filter_org_user : BOOLEAN, org : Orgs]
  /\ backend \in RunBackends
  /\ now = Now0
  /\ InitRest

Init == InitWalk \/ InitRun

\* ---------------------------------------------------------------- actions
\* The clock advances while the program reads it.
Tick ==
  /\ pc \in {"filter", "walk"}
  /\ now < MaxNow
  /\ now' = now + 1
  /\ UNCHANGED <<cfg, backend, start, pc, err, list_req, repos, filter_repos, walkers, stream,
                 map, errors, checks, mreqs, mstream, output>>

\* let repos = get_repos(&client, &token, &org).await?;   (main.rs:110, 231-242)
GetRepos ==
  /\ pc = "get_repos"
  /\ list_req' = {cfg.org}
  /\ \E r \in {"ok", "error"} :
       IF r = "ok"
       THEN pc' = "filter" /\ repos' = backend /\ err' = err
       ELSE pc' = "failed" /\ repos' = repos /\ err' = "get_repos"
  /\ UNCHANGED <<cfg, backend, now, start, filter_repos, walkers, stream, map, errors, checks,
                 mreqs, mstream, output>>

\* One iteration of `for i in repos` (main.rs:114-119).
FilterRepo ==
  /\ pc = "filter"
  /\ repos # <<>>
  /\ LET f == FilterOne(Head(repos), filter_repos, now, cfg.days)
     IN IF ~f.ok
        THEN /\ pc' = "failed"
             /\ err' = "pushed_at"
             /\ UNCHANGED <<repos, filter_repos>>
        ELSE /\ repos' = Tail(repos)
             /\ filter_repos' = f.filter_repos
             /\ UNCHANGED <<pc, err>>
  /\ UNCHANGED <<cfg, backend, now, start, list_req, walkers, stream, map, errors, checks,
                 mreqs, mstream, output>>

\* for i in filter_repos { tasks.push(get_commits_info_by_url(..)) }   (main.rs:137-147)
CreateTasks ==
  /\ pc = "filter"
  /\ repos = <<>>
  /\ walkers' = [i \in DOMAIN filter_repos |-> NewWalker]
  /\ pc' = "walk"
  /\ UNCHANGED <<cfg, backend, now, start, err, list_req, repos, filter_repos, stream, map,
                 errors, checks, mreqs, mstream, output>>

InFlightWalkers == {i \in DOMAIN walkers : walkers[i].st = "running"}

\* buffer_unordered pulls the next future of the iterator and polls it: the
\* request for page 1 is sent (main.rs:149-150, 297-303).
StartWalker(i) ==
  /\ pc = "walk"
  /\ walkers[i].st = "pending"
  /\ \A j \in 1..(i - 1) : walkers[j].st # "pending"
  /\ HasFreeSlot(Cardinality(InFlightWalkers), cfg.thread)
  /\ walkers' = [walkers EXCEPT ![i].st = "running"]
  /\ UNCHANGED <<cfg, backend, now, start, pc, err, list_req, repos, filter_repos, stream, map,
                 errors, checks, mreqs, mstream, output>>

\* A get_commits request of walker i is answered; the walker runs up to its
\* next request or to its return, and a returned Result is collected.
FetchReturn(i) ==
  /\ pc = "walk"
  /\ walkers[i].st = "running"
  /\ \E r \in Responses :
       LET w == WalkStep(walkers[i], filter_repos[i].history, r, now, cfg.days) IN
         /\ walkers' = [walkers EXCEPT ![i] = w]
         /\ stream' = IF w.st = "running" THEN stream ELSE Append(stream, WalkResult(i, w))
  /\ UNCHANGED <<cfg, backend, now, start, pc, err, list_req, repos, filter_repos, map, errors,
                 checks, mreqs, mstream, output>>

\* .collect::<Vec<_>>().await (main.rs:149-152) resolves when every future of
\* the stream has resolved.
AllCollected_first(ws) == \E i \in DOMAIN ws : ws[i].st \in {"done", "failed"}
AllCollected(ws) == \A i \in DOMAIN ws : ws[i].st \in {"done", "failed"}

Perms(S) == {p \in [1..Cardinality(S) -> S] : \A a, b \in DOMAIN p : p[a] = p[b] => a = b}

\* The first collect is complete: fold the results (main.rs:154-179); then
\* either create the membership tasks (181-185) or print the map (215-228).
\* filter_repos was moved into tasks, tasks into the stream and the stream into
\* the for loop: none of them exists afterwards.
Aggregate ==
  /\ pc = "walk"
  /\ AllCollected(walkers)
  /\ LET f == FoldStream([map |-> map, errors |-> errors, abort |-> FALSE], stream, 1) IN
       /\ map' = f.map
       /\ errors' = f.errors
       /\ IF f.abort
          THEN pc' = "failed" /\ err' = "walk" /\ UNCHANGED <<checks, output>>
          ELSE IF cfg.filter_org_user
          THEN /\ checks' = [l \in DOMAIN f.map |-> "pending"]
               /\ pc' = "membership"
               /\ UNCHANGED <<err, output>>
          ELSE /\ \E p \in Perms(DOMAIN f.map) :
                    output' = [k \in DOMAIN p |-> <<p[k], f.map[p[k]]>>]
               /\ pc' = "ok"
               /\ UNCHANGED <<err, checks>>
  /\ filter_repos' = <<>>
  /\ walkers' = <<>>
  /\ stream' = <<>>
  /\ UNCHANGED <<cfg, backend, now, start, list_req, repos, mreqs, mstream>>

InFlightChecks == {l \in DOMAIN checks : checks[l] = "running"}

\* buffer_unordered pulls the next is_org_user future and polls it: the
\* membership request is sent (main.rs:187-188, 269-278).
StartCheck(l) ==
  /\ pc = "membership"
  /\ checks[l] = "pending"
  /\ HasFreeSlot(Cardinality(InFlightChecks), cfg.thread)
  /\ checks' = [checks EXCEPT ![l] = "running"]
  /\ mreqs' = Append(mreqs, MembershipRequest(l))
  /\ UNCHANGED <<cfg, backend, now, start, pc, err, list_req, repos, filter_repos, walkers, stream,
                 map, errors, mstream, output>>

\* The membership request for l is answered and the Result collected (main.rs:279-287).
CheckReturn(l) ==
  /\ pc = "membership"
  /\ checks[l] = "running"
  /\ \E o \in Outcomes :
       /\ checks' = [checks EXCEPT ![l] = o]
       /\ mstream' = Append(mstream, Classify(l, o))
  /\ UNCHANGED <<cfg, backend, now, start, pc, err, list_req, repos, filter_repos, walkers, stream,
                 map, errors, mreqs, output>>

\* The second collect is complete: print the members, bail on an Err
\* (main.rs:196-213, 228).  The tasks and the stream are consumed.
PrintMembers ==
  /\ pc = "membership"
  /\ \A l \in DOMAIN checks : checks[l] \in Outcomes
  /\ LET p == PrintFiltered(output, mstream, map, 1) IN
       /\ output' = p.output
       /\ pc' = IF p.bailed THEN "failed" ELSE "ok"
       /\ err' = IF p.bailed THEN "membership" ELSE err
  /\ checks' = <<>>
  /\ mstream' = <<>>
  /\ UNCHANGED <<cfg, backend, now, start, list_req, repos, filter_repos, walkers, stream, map,
                 errors, mreqs>>

Next ==
  \/ Tick
  \/ GetRepos
  \/ FilterRepo
  \/ CreateTasks
  \/ \E i \in DOMAIN walkers : StartWalker(i)
  \/ \E i \in DOMAIN walkers : FetchReturn(i)
  \/ Aggregate
  \/ \E l \in DOMAIN checks : StartCheck(l)
  \/ \E l \in DOMAIN checks : CheckReturn(l)
  \/ PrintMembers

Spec == Init /\ [][Next]_vars

\* The runtime polls every future that can make progress and every request
\* sent is answered: each step of the program that stays possible is
\* eventually taken.  Nothing is required of the clock.
FairSpec ==
  /\ Init /\ [][Next]_vars
  /\ WF_vars(GetRepos)
  /\ WF_vars(FilterRepo)
  /\ WF_vars(CreateTasks)
  /\ WF_vars(\E i \in DOMAIN walkers : StartWalker(i))
  /\ WF_vars(\E i \in DOMAIN walkers : FetchReturn(i))
  /\ WF_vars(Aggregate)
  /\ WF_vars(\E l \in DOMAIN checks : StartCheck(l))
  /\ WF_vars(\E l \in DOMAIN checks : CheckReturn(l))
  /\ WF_vars(PrintMembers)


\* ================================================================ claims
\* What the claims speak of, stated without the operators of the program.
Instant(s) == s.local - s.off
HasDates(c) ==
  /\ c.commit # {}
  /\ \A m \in c.commit : m.author.date.wf /\ m.committer.date.wf
\* Both timestamps of c are outside the window d at clock t.
Outside(c, t, d) ==
  /\ HasDates(c)
  /\ \A m \in c.commit : /\ t - Instant(m.author.date) > d
                         /\ t - Instant(m.committer.date) > d
\* The commits of the n-th page of history h.
PageCommits(h, n) == {h[k] : k \in {x \in DOMAIN h : (n - 1) * PageSize < x /\ x <= n * PageSize}}
Retained(w) == {w.filter_author[k] : k \in DOMAIN w.filter_author}
\* The logins a sequence of retained commits makes eligible, and their urls.
Eligible(commits) ==
  {a \in UNION {c.author \cup c.committer : c \in commits} : a.login # {} /\ a.html_url # {}}
EligiblePairs(commits) ==
  {<<l, u>> \in Logins \X Urls : \E a \in Eligible(commits) : a.login = {l} /\ a.html_url = {u}}

\* C1: at most cfg.thread walkers are in flight, and at most cfg.thread
\* membership checks are in flight, in every reachable state.
C1_ConcurrencyBound ==
  /\ Cardinality({i \in DOMAIN walkers : walkers[i].st = "running"}) <= cfg.thread
  /\ Cardinality({l \in DOMAIN checks : checks[l] = "running"}) <= cfg.thread

\* The limit binds: as many walkers in flight as allowed while another waits.
C1_Witness ==
  /\ Cardinality({i \in DOMAIN walkers : walkers[i].st = "running"}) = cfg.thread
  /\ \E i \in DOMAIN walkers : walkers[i].st = "pending"

\* C2: failure isolation.  When the results are folded every walker has run to
\* its end; the eligible identities of every successful walker are in the map,
\* every failed walker has an entry in the error log, the fold does not fail
\* the run, and a run fails only for the listing, a pushed_at or a membership check.
C2_FailureIsolation ==
  [][/\ (pc = "walk" /\ pc' # "walk") =>
          /\ \A i \in DOMAIN walkers : walkers[i].st \in {"done", "failed"}
          /\ \A b \in DOMAIN walkers : walkers[b].st = "done" =>
               \A a \in Eligible(Retained(walkers[b])) : \A l \in a.login : l \in DOMAIN map'
          /\ \A a \in DOMAIN walkers : walkers[a].st = "failed" =>
               \E k \in DOMAIN errors' : errors'[k].task = a
          /\ Len(errors') = Cardinality({a \in DOMAIN walkers : walkers[a].st = "failed"})
          /\ pc' # "failed"
     /\ pc' = "failed" => err' \in {"get_repos", "pushed_at", "membership"}]_vars

\* A run that ended well although one walker failed and another contributed identities.
C2_Witness ==
  /\ pc = "ok"
  /\ errors # <<>>
  /\ map # <<>>

\* C3 (as claimed): a walker whose fetch was answered with 409 Conflict ends
\* successfully, with the commits it had accumulated.
C3_EmptyRepoIsSuccess ==
  \A i \in DOMAIN walkers : walkers[i].resp = "conflict" => walkers[i].st = "done"

\* C4: early termination stops paging.  When a page is fetched and holds a
\* commit with both timestamps outside the window, the walker ends on that page;
\* it ends by the early return only on such a page; and, the clock standing
\* still, no earlier page holds such a commit.
C4_StopsPaging ==
  [][(pc = "walk" /\ pc' = "walk") =>
       \A i \in DOMAIN walkers :
         LET w == walkers[i]
             v == walkers'[i]
             h == filter_repos[i].history
             hit == \E c \in PageCommits(h, w.page) : Outside(c, now, cfg.days)
         IN (w.st = "running" /\ v # w /\ v.resp = "ok") =>
              /\ hit => (v.st # "running" /\ v.page = w.page)
              /\ v.stop = "early" => hit
              /\ (v.stop = "early" /\ now = start) =>
                   \A q \in 1..(w.page - 1) :
                     ~ \E c \in PageCommits(h, q) : Outside(c, now, cfg.days)]_vars

\* A walker that ended by the early return on its second page.
C4_Witness ==
  \E i \in DOMAIN walkers : walkers[i].stop = "early" /\ walkers[i].page = 2

\* C5 (as claimed): after the early return the result holds no commit of the
\* page it fired on, nor of a later page.
C5_NoCommitOfThatPage ==
  \A i \in DOMAIN walkers :
    walkers[i].stop = "early" =>
      \A c \in Retained(walkers[i]) : c.sha <= (walkers[i].page - 1) * PageSize

\* C5 (amended): after the early return on a commit T with both timestamps
\* outside the window, the result holds neither T nor any commit after T.
C5_NothingFromTerminatingCommitOn ==
  \A i \in DOMAIN walkers :
    walkers[i].stop = "early" =>
      \E t \in PageCommits(filter_repos[i].history, walkers[i].page) :
        /\ Outside(t, now, cfg.days)
        /\ \A c \in Retained(walkers[i]) : c.sha < t.sha

\* The early return fired in the middle of a page and a commit of that page is kept.
C5_Witness ==
  \E i \in DOMAIN walkers :
    /\ walkers[i].stop = "early"
    /\ \E c \in Retained(walkers[i]) : c.sha > (walkers[i].page - 1) * PageSize


\* At least one timestamp of c is inside the window d at clock t.
Inside(c, t, d) ==
  /\ HasDates(c)
  /\ \E m \in c.commit : \/ t - Instant(m.author.date) <= d
                         \/ t - Instant(m.committer.date) <= d
\* Newest first: every commit with metadata has well-formed dates, and neither
\* the author nor the committer timestamps increase along the history.
NewestFirst(h) ==
  /\ \A k \in DOMAIN h : h[k].commit # {} => HasDates(h[k])
  /\ \A k, l \in DOMAIN h :
       (k < l /\ h[k].commit # {} /\ h[l].commit # {}) =>
         \A m \in h[k].commit : \A n \in h[l].commit :
           /\ Instant(m.author.date) >= Instant(n.author.date)
           /\ Instant(m.committer.date) >= Instant(n.committer.date)
InWindowPart(h, t, d) ==
  LET Test(c) == Inside(c, t, d) IN SelectSeq(h, Test)

\* C6: on a newest-first history, the clock standing still, a successful walk
\* returns exactly the commits with metadata that have a timestamp inside the
\* window, in history order.
C6_WalkerResult ==
  \A i \in DOMAIN walkers :
    (walkers[i].st = "done" /\ now = start /\ NewestFirst(filter_repos[i].history)) =>
      walkers[i].filter_author = InWindowPart(filter_repos[i].history, now, cfg.days)

\* A walk that kept a commit, passed a commit without metadata and stopped
\* before the end of the history.
C6_Witness ==
  \E i \in DOMAIN walkers :
    LET h == filter_repos[i].history IN
      /\ walkers[i].st = "done" /\ now = start /\ NewestFirst(h)
      /\ walkers[i].stop = "early"
      /\ walkers[i].filter_author # <<>>
      /\ \E k \in DOMAIN h : h[k].commit = {} /\ k < Len(h)

\* C7: the fold leaves in the map exactly the logins of the eligible identities
\* (login and url present) of the commits the successful walkers retained,
\* each with the url of one of these identities; the map does not change
\* afterwards, and printed unfiltered it gives one line per login.
C7_Aggregation ==
  [][/\ (pc = "walk" /\ pc' # "walk") =>
          LET kept == UNION {Retained(walkers[b]) :
                               b \in {x \in DOMAIN walkers : walkers[x].st = "done"}}
          IN /\ DOMAIN map' = {l \in Logins : \E u \in Urls : <<l, u>> \in EligiblePairs(kept)}
             /\ \A l \in DOMAIN map' : <<l, map'[l]>> \in EligiblePairs(kept)
             /\ pc' = "ok" =>
                  /\ Len(output') = Cardinality(DOMAIN map')
                  /\ {output'[k] : k \in DOMAIN output'} = {<<l, map'[l]>> : l \in DOMAIN map'}
     /\ pc # "walk" => map' = map]_vars

\* Two repositories whose commits carry the same login and url gave one entry.
C7_Witness ==
  /\ pc = "ok"
  /\ Len(backend) = 2
  /\ \A k \in DOMAIN backend : backend[k].history = HistA /\ backend[k].pushed_at = RecentDate
  /\ errors = <<>>
  /\ map = ("alice" :> "url1")
  /\ output = << <<"alice", "url1">> >>

\* C8: when every membership check answers member or not-found, one request
\* was sent per login of the map, nothing was printed before the checks ended,
\* and what is printed is exactly the pairs (login, map[login]) of the members.
C8_MembershipFilter ==
  [][(pc = "membership" /\ pc' # "membership"
        /\ \A l \in DOMAIN checks : checks[l] \in {"member", "not_found"}) =>
       LET members == {l \in DOMAIN checks : checks[l] = "member"} IN
         /\ DOMAIN checks = DOMAIN map
         /\ Len(mreqs) = Cardinality(DOMAIN map)
         /\ {mreqs[k].user : k \in DOMAIN mreqs} = DOMAIN map
         /\ output = <<>>
         /\ pc' = "ok"
         /\ Len(output') = Cardinality(members)
         /\ {output'[k] : k \in DOMAIN output'} = {<<l, map[l]>> : l \in members}]_vars

\* alice and bob were aggregated, bob was not found, only alice is printed.
C8_Witness ==
  /\ pc = "ok"
  /\ cfg.filter_org_user
  /\ DOMAIN map = {"alice", "bob"}
  /\ Len(mreqs) = 2
  /\ output = << <<"alice", map["alice"]>> >>

\* C9: the membership stage ends in failure exactly when some check ended
\* neither as member nor as not-found, whatever the other checks did and in
\* whatever order they completed.
C9_IndeterminateIsFatal ==
  [][(pc = "membership" /\ pc' # "membership") =>
       /\ \A l \in DOMAIN checks : checks[l] \in {"member", "not_found", "other"}
       /\ pc' \in {"ok", "failed"}
       /\ pc' = "failed" <=> \E l \in DOMAIN checks : checks[l] = "other"
       /\ pc' = "failed" => err' = "membership"]_vars

\* A run of two checks that failed on the membership stage.
C9_Witness ==
  /\ pc = "failed"
  /\ err = "membership"
  /\ Len(mreqs) = 2

\* C10 (as claimed): every membership request names the configured
\* organization, the one whose repositories were listed.
C10_ChecksConfiguredOrg ==
  /\ list_req \subseteq {cfg.org}
  /\ \A k \in DOMAIN mreqs : mreqs[k].org = cfg.org


\* ------------------------------------------------- claims on two windows
\* The windows compared, and the program's pre-filter and walk run to their
\* end on a standing clock with every fetch answered.
Windows == 0..MaxNow
IsPrefix(a, b) == Len(a) <= Len(b) /\ SubSeq(b, 1, Len(a)) = a
Range(q) == {q[k] : k \in DOMAIN q}

RECURSIVE PreFilter(_, _, _, _)
PreFilter(rs, acc, t, d) ==
  IF rs = <<>> THEN [ok |-> TRUE, filter_repos |-> acc]
  ELSE LET f == FilterOne(Head(rs), acc, t, d) IN
    IF ~f.ok THEN f ELSE PreFilter(Tail(rs), f.filter_repos, t, d)

RECURSIVE FullWalk(_, _, _, _)
FullWalk(w, h, t, d) ==
  IF w.st # "running" THEN w ELSE FullWalk(WalkStep(w, h, "ok", t, d), h, t, d)
WalkUnder(h, t, d) == FullWalk([NewWalker EXCEPT !.st = "running"], h, t, d)
\* What a walk gives to the aggregation.
Given(w) == IF w.st = "done" THEN w.filter_author ELSE <<>>

\* C11 (as claimed): on a standing clock, a window at least as large keeps
\* every repository of the pre-filter, and a walk under it gives every commit
\* the walk under the smaller window gave, as a prefix.
C11_WindowMonotone ==
  \A W \in Windows :
    (now = start /\ pc = "walk" /\ W >= cfg.days) =>
      /\ Range(filter_repos) \subseteq Range(PreFilter(backend, <<>>, now, W).filter_repos)
      /\ \A i \in DOMAIN walkers :
           walkers[i].st = "done" =>
             IsPrefix(walkers[i].filter_author,
                      Given(WalkUnder(filter_repos[i].history, now, W)))

\* C11 (amended): the same, for the walks under the larger window that succeed;
\* and under a smaller window the pre-filter keeps a subset, the walk succeeds
\* and gives a prefix.
C11_WindowMonotoneWhereWalkSucceeds ==
  \A W \in Windows :
    (now = start /\ pc = "walk") =>
      LET f == PreFilter(backend, <<>>, now, W) IN
        /\ f.ok
        /\ W >= cfg.days => Range(filter_repos) \subseteq Range(f.filter_repos)
        /\ W <= cfg.days => Range(f.filter_repos) \subseteq Range(filter_repos)
        /\ \A i \in DOMAIN walkers :
             walkers[i].st = "done" =>
               LET o == WalkUnder(filter_repos[i].history, now, W) IN
                 /\ (W >= cfg.days /\ o.st = "done") =>
                      IsPrefix(walkers[i].filter_author, o.filter_author)
                 /\ W <= cfg.days =>
                      (o.st = "done" /\ IsPrefix(o.filter_author, walkers[i].filter_author))

\* A walk that kept a commit, where a larger window keeps strictly more
\* commits and a larger window keeps a repository the pre-filter dropped.
C11_Witness ==
  /\ now = start /\ pc = "walk"
  /\ \E i \in DOMAIN walkers :
       /\ walkers[i].st = "done" /\ walkers[i].filter_author # <<>>
       /\ \E W \in Windows :
            LET o == WalkUnder(filter_repos[i].history, now, W) IN
              /\ W > cfg.days /\ o.st = "done"
              /\ Len(o.filter_author) > Len(walkers[i].filter_author)

\* ------------------------------------------------ claims on the fold order
\* The map the fold builds from the collected results taken in the order p.
FoldIn(results, p) ==
  FoldStream([map |-> <<>>, errors |-> <<>>, abort |-> FALSE],
             [k \in DOMAIN results |-> results[p[k]]], 1).map
OkCommits(results) ==
  UNION {Range(results[k].commits) : k \in {x \in DOMAIN results : results[x].ok}}

\* C12 (as claimed): the map does not depend on the order in which the
\* walkers completed: every order of the same results gives the same map.
C12_SameMapInEveryOrder ==
  [][(pc = "walk" /\ pc' # "walk") =>
       \A p \in Perms(DOMAIN stream) : FoldIn(stream, p) = map']_vars

\* C12 (amended): every order of the same results gives the same logins, and
\* the same url for every login that has one url in the retained commits.
C12_SameLoginsInEveryOrder ==
  [][(pc = "walk" /\ pc' # "walk") =>
       \A p \in Perms(DOMAIN stream) :
         /\ DOMAIN FoldIn(stream, p) = DOMAIN map'
         /\ \A l \in DOMAIN map' :
              Cardinality({u \in Urls : <<l, u>> \in EligiblePairs(OkCommits(stream))}) = 1
                => FoldIn(stream, p)[l] = map'[l]]_vars

\* Two walkers succeeded, alice has url1 in the first repository and url2 in
\* the second, and the map holds the url of the first: it completed last.
C12_Witness ==
  /\ pc \in {"ok", "membership"}
  /\ Len(backend) = 2
  /\ backend[1].history = HistA /\ backend[2].history = HistB
  /\ errors = <<>>
  /\ DOMAIN map = {"alice", "bob"}
  /\ map["alice"] = "url1"

\* -------------------------------------------------- claims on the stages
\* C13: a run that failed on the listing or on a pushed_at has created no
\* walker, collected nothing, sent no membership request and printed nothing;
\* and with a malformed pushed_at anywhere in the listing the run never gets
\* past the pre-filter, so it cannot end well.
C13_FatalBeforeCrawl ==
  /\ (pc = "failed" /\ err \in {"get_repos", "pushed_at"}) =>
       /\ walkers = <<>> /\ stream = <<>> /\ map = <<>>
       /\ mreqs = <<>> /\ output = <<>>
  /\ (pc = "failed" /\ err = "get_repos") => filter_repos = <<>>
  /\ (\E k \in DOMAIN backend : ~ backend[k].pushed_at.wf) =>
       /\ pc \in {"get_repos", "filter", "failed"}
       /\ walkers = <<>> /\ output = <<>>

\* The second repository of the listing has a malformed pushed_at: the run
\* failed although the first had passed the pre-filter.
C13_Witness ==
  /\ pc = "failed" /\ err = "pushed_at"
  /\ Len(backend) = 2
  /\ ~ backend[2].pushed_at.wf
  /\ Len(filter_repos) = 1

\* C14: at every point of a walk the retained commits are a prefix of the
\* history restricted to the window (the commits with a timestamp inside it,
\* taken at the clock of the start, which every later reading exceeds), in
\* history order, and every commit with metadata that precedes a retained
\* commit is retained.
C14_NonGapped ==
  \A i \in DOMAIN walkers :
    LET r == walkers[i].filter_author
        h == filter_repos[i].history
    IN /\ IsPrefix(r, InWindowPart(h, start, cfg.days))
       /\ \A a, b \in DOMAIN r : a < b => r[a].sha < r[b].sha
       /\ \A c \in Range(r) : \A k \in 1..(c.sha - 1) : h[k].commit # {} => h[k] \in Range(r)

\* A walk that retained two commits and stopped early before the end of the history.
C14_Witness ==
  \E i \in DOMAIN walkers :
    /\ walkers[i].stop = "early"
    /\ Len(walkers[i].filter_author) = 2
    /\ Len(filter_repos[i].history) > 2

\* C15: the walk of a repository.  The tasks are created not yet polled, on
\* page 1 and empty; a walker starts by requesting page 1; from the request for
\* page N it goes to the request for page N+1, only when page N came, was not
\* empty and held no commit with both timestamps outside the window, or it
\* ends as done or failed on page N; once ended it does not change, and a
\* collected result is never changed or removed while results are collected.
C15_WalkStateMachine ==
  [][/\ (pc = "filter" /\ pc' = "walk") =>
          \A i \in DOMAIN walkers' :
            /\ walkers'[i].st = "pending" /\ walkers'[i].page = 1
            /\ walkers'[i].filter_author = <<>>
     /\ (pc = "walk" /\ pc' = "walk") =>
          /\ IsPrefix(stream, stream')
          /\ \A i \in DOMAIN walkers :
               LET w == walkers[i]
                   v == walkers'[i]
                   h == filter_repos[i].history
               IN \/ v = w
                  \/ /\ w.st = "pending" /\ v.st = "running"
                     /\ v.page = 1 /\ v.filter_author = <<>>
                  \/ /\ w.st = "running" /\ v.st = "running"
                     /\ v.page = w.page + 1
                     /\ v.resp = "ok"
                     /\ PageCommits(h, w.page) # {}
                     /\ ~ \E c \in PageCommits(h, w.page) : Outside(c, now, cfg.days)
                  \/ /\ w.st = "running" /\ v.st \in {"done", "failed"}
                     /\ v.page = w.page]_vars

\* A walker that requested pages 1 and 2 and ended on the empty page 2.
C15_Witness ==
  \E i \in DOMAIN walkers :
    /\ walkers[i].st = "done" /\ walkers[i].stop = "empty_page"
    /\ walkers[i].page = 2
    /\ walkers[i].filter_author # <<>>

\* The scan of page n at clock t reaches a commit with a malformed date: no
\* commit before it on the page has both timestamps outside the window.
ReachesMalformed(h, n, t, d) ==
  \E c \in PageCommits(h, n) :
    /\ c.commit # {} /\ ~ HasDates(c)
    /\ \A b \in PageCommits(h, n) : b.sha < c.sha => ~ Outside(b, t, d)

\* C16: a fetch answered with an error other than 409, or a malformed date
\* reached by the scan, ends the walk as failed, whatever it had accumulated;
\* the failure is collected as an Err, leaves the other walkers as they are,
\* and at the fold is logged while the map is built from the successful
\* walkers only.
C16_WalkAbort ==
  [][/\ (pc = "walk" /\ pc' = "walk") =>
          \A i \in DOMAIN walkers :
            LET w == walkers[i]
                v == walkers'[i]
                h == filter_repos[i].history
            IN (w.st = "running" /\ v # w) =>
                 /\ v.resp = "error" => (v.st = "failed" /\ v.stop = "fetch_error")
                 /\ (v.resp = "ok" /\ ReachesMalformed(h, w.page, now, cfg.days)) =>
                      (v.st = "failed" /\ v.stop = "parse_error")
                 /\ v.st = "failed" =>
                      /\ stream' = Append(stream, [task |-> i, ok |-> FALSE,
                                                   commits |-> v.filter_author,
                                                   err |-> v.stop])
                      /\ \A j \in DOMAIN walkers : j # i => walkers'[j] = walkers[j]
     /\ (pc = "walk" /\ pc' # "walk") =>
          LET good == {x \in DOMAIN walkers : walkers[x].st = "done"}
              kept == UNION {Retained(walkers[b]) : b \in good}
          IN /\ \A l \in DOMAIN map' : <<l, map'[l]>> \in EligiblePairs(kept)
             /\ \A a \in DOMAIN walkers \ good :
                  \E k \in DOMAIN errors' :
                    errors'[k] = [task |-> a, err |-> walkers[a].stop]]_vars

\* A walker failed on a later page with commits accumulated, next to a walker
\* that succeeded.
C16_Witness ==
  \E i, j \in DOMAIN walkers :
    /\ walkers[i].st = "failed" /\ walkers[i].stop = "fetch_error"
    /\ walkers[i].page = 2 /\ walkers[i].filter_author # <<>>
    /\ walkers[j].st = "done" /\ walkers[j].filter_author # <<>>


\* C17: while the walkers exist there is one walker per filtered repository;
\* the filtered repositories are listed repositories in listing order, each
\* once; a repository is filtered in only if its push was inside the window
\* when the run began, and every repository whose push is inside the window
\* now (boundary included) is filtered in; a walker has started only if every
\* walker of an earlier filtered repository has started.  Results are
\* collected in the order the walkers end, whatever their position.
C17_WalkerDispatch ==
  pc = "walk" =>
    /\ DOMAIN walkers = DOMAIN filter_repos
    /\ \A i, j \in DOMAIN filter_repos : i < j => filter_repos[i].url < filter_repos[j].url
    /\ \A i \in DOMAIN filter_repos :
         /\ filter_repos[i] \in Range(backend)
         /\ filter_repos[i].pushed_at.wf
         /\ start - Instant(filter_repos[i].pushed_at) <= cfg.days
    /\ \A r \in Range(backend) :
         (r.pushed_at.wf /\ now - Instant(r.pushed_at) <= cfg.days) => r \in Range(filter_repos)
    /\ \A i, j \in DOMAIN walkers :
         (i < j /\ walkers[j].st # "pending") => walkers[i].st # "pending"

\* Two repositories pushed exactly on the boundary of the window both have a
\* walker, and the second walker's result is collected while the first runs.
C17_Witness ==
  /\ pc = "walk"
  /\ cfg.days = 0
  /\ Len(backend) = 2
  /\ \A k \in DOMAIN backend : now - Instant(backend[k].pushed_at) = cfg.days
  /\ Len(walkers) = 2
  /\ stream # <<>>
  /\ stream[1].task = 2
  /\ walkers[1].st = "running"


\* C18: the map changes only in the step that leaves the walk stage, taken
\* when every walker is done or failed and none is in flight; until then the
\* map is empty and no membership check exists; a membership request is sent
\* only in the membership stage, after the walkers and their results were
\* consumed by the fold, for a login of the finished map.
C18_SingleWriter ==
  [][/\ map' # map =>
          /\ pc = "walk" /\ pc' # "walk"
          /\ \A i \in DOMAIN walkers : walkers[i].st \in {"done", "failed"}
          /\ Len(stream) = Len(walkers)
          /\ walkers' = <<>>
     /\ pc \in {"get_repos", "filter", "walk"} =>
          map = <<>> /\ checks = <<>> /\ mreqs = <<>>
     /\ (checks' # checks \/ mreqs' # mreqs) =>
          /\ pc' \in {"membership", "ok", "failed"}
          /\ walkers' = <<>> /\ stream' = <<>>
          /\ map' = map \/ pc = "walk"
     /\ mreqs' # mreqs =>
          /\ pc = "membership" /\ map' = map
          /\ \A k \in DOMAIN mreqs' : \E l \in DOMAIN map : mreqs'[k] = MembershipRequest(l)]_vars

\* A membership request was sent for a map of two logins.
C18_Witness ==
  /\ pc = "membership"
  /\ Cardinality(DOMAIN map) = 2
  /\ mreqs # <<>>


\* C19: with cfg.thread >= 1, finitely many repositories with finite
\* histories and every request answered, the run ends in success or failure;
\* on the way every walker becomes done or failed with its result collected,
\* and every membership check is answered.
C19_Termination ==
  /\ <>(pc \in {"ok", "failed"})
  /\ [](pc = "walk" =>
          <>(/\ pc = "walk"
             /\ \A i \in DOMAIN walkers : walkers[i].st \in {"done", "failed"}
             /\ Len(stream) = Len(walkers)))
  /\ [](pc = "membership" =>
          <>(pc = "membership" /\ \A l \in DOMAIN checks : checks[l] \in Outcomes))

\* A run ended in success after a walker failed, another succeeded and two
\* membership checks were answered.
C19_Witness ==
  /\ pc = "ok"
  /\ cfg.filter_org_user
  /\ errors # <<>>
  /\ Len(mreqs) = 2
  /\ output # <<>>

\* C20: under the membership filter, a run that failed on an indeterminate
\* membership check has printed no identity line: identities are printed only
\* by runs that end in success.
C20_AllOrNothing ==
  cfg.filter_org_user =>
    /\ (pc = "failed" /\ err = "membership") => output = <<>>
    /\ output # <<>> => pc = "ok"

====
